---- MODULE Spec2Model ----
(***************************************************************************)
(* A model of src/galliun.js: the GalliunClient message router with its    *)
(* feature registry, and the GalliunButton features with their popup       *)
(* window, their callbacks and their popup-closure poll timers.            *)
(*                                                                         *)
(* The host page, the user, the browser's timers and the popup page are    *)
(* the environment: they mount and destroy buttons, click them, close      *)
(* popup windows, fire interval ticks and post messages.                   *)
(***************************************************************************)
EXTENDS Integers, Sequences, FiniteSets

\* ---------------------------------------------------------------- bounds

\* Windows that window.open hands out in one behaviour.
MaxWindows == 2

\* ------------------------------------------------------------- constants

\* The buttons the page created with elements.createButton.
Features == {"b1", "b2"}

\* The products the page mounts buttons for.
ProductIds == {"p1"}

\* The products the popup page may name in the data of its messages.
RemoteProductIds == {"p1", "p2"}

\* options.productId absent; also this.productId before the first mount.
Undefined == "undefined"

\* this.popup = null; also what a blocked window.open returns.
Null == 0

\* No button element rendered in the container.
NoButton == "none"

\* new URL(this.baseUrl).origin
popupOrigin == "https://pay.example"

Origins == {popupOrigin, "https://evil.example"}

\* A user callback: not supplied, returns normally, or raises an exception.
CbKinds == {"absent", "ok", "throws"}

CallbackNames == {"onSuccess", "onError", "onClose", "onLoaded"}

\* The callbacks a mount is given: none, all of them, or all of them with
\* every one raising.
CallbackSets == {[n \in CallbackNames |-> k] : k \in CbKinds}

\* The callbacks the constructor stores: this.callbacks = {}.
NoCallbacks == [n \in CallbackNames |-> "absent"]

NoData == [none |-> TRUE]

\* The messages the page can receive: {origin, data: {type, data}}.
Messages ==
    {[origin |-> o, type |-> t, data |-> NoData] :
        o \in Origins, t \in {"GALLIUN_LOADED", "GALLIUN_CLOSE", "OTHER"}}
    \cup {[origin |-> o, type |-> "GALLIUN_SUCCESS", data |-> [productId |-> p]] :
        o \in Origins, p \in RemoteProductIds}
    \cup {[origin |-> o, type |-> "GALLIUN_ERROR",
           data |-> [type |-> t, code |-> "card_declined"]] :
        o \in Origins, t \in {Undefined, "card_error"}}

\* What window.open returns: null, a handle that already reports closed,
\* or a handle of an open window.
OpenResults == {"null", "closed", "open"}

VARIABLES
    listening,    \* the client's 'message' listener is installed on window
    registry,     \* client._activeFeatures, a Set in insertion order
    callbacks,    \* button.callbacks
    productId,    \* button.productId
    popup,        \* button.popup: Null or a window handle
    button,       \* the productId the rendered button's click handler holds
    wins,         \* the windows opened so far: the owner, window.closed
    pollTimers,   \* the active setInterval timers of openPopup
    delivered,    \* the features whose handleMessage the last dispatch invoked
    fired,        \* the callbacks the last step invoked, in order
    lastEv        \* the last step: its kind, the feature or message it was
                  \* about, and what held of that feature when it began

vars == <<listening, registry, callbacks, productId, popup, button, wins,
          pollTimers, delivered, fired, lastEv>>

Windows == 1..Len(wins)

Range(s) == {s[i] : i \in 1..Len(s)}

\* ------------------------------------------------------ the registry (Set)

\* Set.prototype.add: no effect when the feature is already a member.
registerFeature_Append(reg, f) == Append(reg, f)

registerFeature(reg, f) ==
    IF f \in Range(reg) THEN reg ELSE Append(reg, f)

\* Set.prototype.delete: removes the one occurrence a Set can hold.
RemoveFirst(reg, f) ==
    IF f \notin Range(reg) THEN reg
    ELSE LET i == CHOOSE k \in 1..Len(reg) :
                    reg[k] = f /\ \A j \in 1..(k - 1) : reg[j] # f
         IN SubSeq(reg, 1, i - 1) \o SubSeq(reg, i + 1, Len(reg))

unregisterFeature_Keep(reg, f) == reg

unregisterFeature(reg, f) == RemoveFirst(reg, f)

\* ------------------------------------------------------------ the windows

\* The feature holds a popup that is open.
PopupOpen(w, pop) == pop # Null /\ ~w[pop].closed

\* The features that hold an open popup.
HoldOpen == {f \in Features : PopupOpen(wins, popup[f])}

\* popup.close()
CloseWindow(w, h) == [w EXCEPT ![h].closed = TRUE]

\* if (this.popup) this.popup.close()
ClosePopup(w, pop) == IF pop # Null THEN CloseWindow(w, pop) ELSE w

\* if (this.popup && !this.popup.closed) this.popup.close()
CloseExisting_Skip(w, pop) == w

CloseExisting(w, pop) ==
    IF pop # Null /\ ~w[pop].closed THEN CloseWindow(w, pop) ELSE w

\* openPopup: if (!this.popup || this.popup.closed), the popup was blocked.
PopupBlocked(w, pop) == pop = Null \/ w[pop].closed

\* The poll: if (!this.popup || this.popup.closed), the popup is gone.
PopupGone_Never(w, pop) == FALSE

PopupGone_Always(w, pop) == TRUE

PopupGone(w, pop) == pop = Null \/ w[pop].closed

\* ---------------------------------------------------- callback invocation

\* The effects of a handler so far: the windows, the callbacks invoked, the
\* features reached by a dispatch, and whether an exception is propagating
\* (the rest of the handler is then skipped).
Effects(w) ==
    [wins |-> w, fired |-> <<>>, delivered |-> {}, threw |-> FALSE]

\* callbacks.<name>(arg), for a callback that was supplied; popup is the
\* handle the feature holds at that moment.
Call(e, f, cbs, pop, name, arg) ==
    [e EXCEPT !.fired = Append(@, [f |-> f, cb |-> name, arg |-> arg,
                                   popup |-> pop]),
              !.threw = (cbs[name] = "throws")]

\* Whether the invocations cs hold a terminal callback of feature f.
FiredTerminal(cs, f) ==
    \E i \in 1..Len(cs) :
        cs[i].f = f /\ cs[i].cb \in {"onSuccess", "onError"}

\* this.callbacks.onClose?.()
CallOnClose(e, f, cbs, pop) ==
    IF cbs["onClose"] = "absent" THEN e
    ELSE Call(e, f, cbs, pop, "onClose", NoData)

\* ------------------------------------------------------ GalliunButton

\* The standardError of handleError.
StandardError(error, pid) ==
    [type |-> IF error.type # Undefined THEN error.type ELSE "api_error",
     code |-> error.code,
     productId |-> pid]

\* GalliunButton.handleError(error)
handleError(e, f, cbs, pop, pid, error) ==
    LET e1 == IF cbs["onError"] # "absent"
              THEN Call(e, f, cbs, pop, "onError", StandardError(error, pid))
              ELSE e
    IN IF e1.threw THEN e1
       ELSE [e1 EXCEPT !.wins = ClosePopup(@, pop)]

\* The result GALLIUN_SUCCESS hands to onSuccess.
SuccessResult_Stored(pid, data) ==
    [status |-> "succeeded", productId |-> pid]

SuccessResult(pid, data) ==
    [status |-> "succeeded", productId |-> data.productId]

\* GalliunButton.handleMessage(event)
GalliunButton_handleMessage_NoBreak(e, f, msg) ==
    LET e1 == IF msg.type = "GALLIUN_LOADED" /\ callbacks[f]["onLoaded"] # "absent"
              THEN Call(e, f, callbacks[f], popup[f], "onLoaded", NoData)
              ELSE e
    IN IF e1.threw THEN e1
       ELSE [e1 EXCEPT !.wins = ClosePopup(@, popup[f])]

GalliunButton_handleMessage(e, f, msg) ==
    LET cbs == callbacks[f]
        pop == popup[f]
    IN CASE msg.type = "GALLIUN_LOADED" ->
              IF cbs["onLoaded"] # "absent"
              THEN Call(e, f, cbs, pop, "onLoaded", NoData)
              ELSE e
         [] msg.type = "GALLIUN_SUCCESS" ->
              LET e1 == IF cbs["onSuccess"] # "absent"
                        THEN Call(e, f, cbs, pop, "onSuccess",
                                  SuccessResult(productId[f], msg.data))
                        ELSE e
              IN IF e1.threw THEN e1
                 ELSE [e1 EXCEPT !.wins = ClosePopup(@, pop)]
         [] msg.type = "GALLIUN_ERROR" ->
              handleError(e, f, cbs, pop, productId[f], msg.data)
         [] msg.type = "GALLIUN_CLOSE" ->
              CallOnClose([e EXCEPT !.wins = ClosePopup(@, pop)], f, cbs, pop)
         [] OTHER -> e

\* ------------------------------------------------------ GalliunClient

\* event.origin !== this.popupOrigin: return
OriginTrusted_Any(origin) == TRUE

OriginTrusted(origin) == origin = popupOrigin

\* this._activeFeatures.forEach(feature => feature.handleMessage(event)),
\* from the i-th feature on; an exception ends the iteration.
RECURSIVE Dispatch(_, _, _)
Dispatch(e, i, msg) ==
    IF i > Len(registry) \/ e.threw THEN e
    ELSE Dispatch(
            GalliunButton_handleMessage(
                [e EXCEPT !.delivered = @ \cup {registry[i]}], registry[i], msg),
            i + 1, msg)

\* GalliunClient.handleMessage(event)
GalliunClient_handleMessage(e, msg) ==
    IF ~OriginTrusted(msg.origin) THEN e ELSE Dispatch(e, 1, msg)

\* this._activeFeatures.forEach(feature => feature.destroy()): each feature
\* closes its popup and deletes itself from the Set being iterated.
DestroyAll_Skip(w, reg) ==
    IF reg = <<>> THEN w ELSE CloseExisting(w, popup[Head(reg)])

RECURSIVE DestroyAll(_, _)
DestroyAll(w, reg) ==
    IF reg = <<>> THEN w
    ELSE DestroyAll(CloseExisting(w, popup[Head(reg)]),
                    unregisterFeature(reg, Head(reg)))

\* --------------------------------------------------------------- Init

Init ==
    /\ listening = TRUE
    /\ registry = <<>>
    /\ callbacks = [f \in Features |-> NoCallbacks]
    /\ productId = [f \in Features |-> Undefined]
    /\ popup = [f \in Features |-> Null]
    /\ button = [f \in Features |-> NoButton]
    /\ wins = <<>>
    /\ pollTimers = {}
    /\ delivered = {}
    /\ fired = <<>>
    /\ lastEv = [kind |-> "init"]

\* The effects of a finished handler become the next state.
Commit(e) ==
    /\ wins' = e.wins
    /\ fired' = e.fired
    /\ delivered' = e.delivered

\* ------------------------------------------------------------ actions

\* if (!options.productId)
ProductIdMissing_Never(pid) == FALSE

ProductIdMissing(pid) == pid = Undefined

\* if (!container): log and return
ContainerMissing_Never(exists) == FALSE

ContainerMissing(exists) == ~exists

\* GalliunButton.mount(options); exists: getElementById found the container.
Mount(f, exists, opts) ==
    /\ lastEv' = [kind |-> "mount", f |-> f, exists |-> exists,
                  registered |-> (f \in Range(registry))]
    /\ IF ContainerMissing(exists)
       THEN /\ Commit(Effects(wins))
            /\ UNCHANGED <<registry, callbacks, productId, button>>
       ELSE /\ callbacks' = [callbacks EXCEPT ![f] = opts.callbacks]
            /\ registry' = registerFeature(registry, f)
            /\ IF ProductIdMissing(opts.productId)
               THEN /\ Commit(handleError(Effects(wins), f, opts.callbacks,
                                          popup[f], productId[f],
                                          [type |-> "validation_error",
                                           code |-> "parameter_missing"]))
                    /\ UNCHANGED <<productId, button>>
               ELSE /\ productId' = [productId EXCEPT ![f] = opts.productId]
                    /\ button' = [button EXCEPT ![f] = opts.productId]
                    /\ Commit(Effects(wins))
    /\ UNCHANGED <<listening, popup, pollTimers>>

\* The setInterval of openPopup, unless the popup was blocked (return).
StartPoll_Always(timers, blocked, t) == timers \cup {t}

StartPoll(timers, blocked, t) == IF blocked THEN timers ELSE timers \cup {t}

\* A click on the rendered button: GalliunButton.openPopup(productId), with
\* the result of window.open.
Click(f, res) ==
    /\ button[f] # NoButton
    /\ res # "null" => Len(wins) < MaxWindows
    /\ LET w1 == CloseExisting(wins, popup[f])
           h == IF res = "null" THEN Null ELSE Len(wins) + 1
           w2 == IF res = "null" THEN w1
                 ELSE Append(w1, [owner |-> f, closed |-> (res = "closed")])
           blocked == PopupBlocked(w2, h)
           e0 == Effects(w2)
       IN /\ popup' = [popup EXCEPT ![f] = h]
          /\ pollTimers' = StartPoll(pollTimers, blocked, [owner |-> f, win |-> h])
          /\ IF blocked
             THEN Commit(handleError(e0, f, callbacks[f], h, productId[f],
                                     [type |-> "popup_error",
                                      code |-> "popup_blocked"]))
             ELSE Commit(e0)
          /\ lastEv' = [kind |-> "click", f |-> f,
                        wasOpen |-> PopupOpen(wins, popup[f])]
    /\ UNCHANGED <<listening, registry, callbacks, productId, button>>

\* One tick of a poll timer that openPopup started.
PollTick(t) ==
    /\ t \in pollTimers
    /\ LET f == t.owner
       IN IF PopupGone(wins, popup[f])
          THEN /\ pollTimers' = pollTimers \ {t}
               /\ Commit(CallOnClose(Effects(wins), f, callbacks[f], popup[f]))
          ELSE /\ pollTimers' = pollTimers
               /\ Commit(Effects(wins))
    /\ lastEv' = [kind |-> "tick", f |-> t.owner]
    /\ UNCHANGED <<listening, registry, callbacks, productId, popup, button>>

\* The user (or the popup page) closes a popup window.
UserClose(h) ==
    /\ h \in Windows
    /\ ~wins[h].closed
    /\ Commit(Effects(CloseWindow(wins, h)))
    /\ lastEv' = [kind |-> "userClose"]
    /\ UNCHANGED <<listening, registry, callbacks, productId, popup, button,
                   pollTimers>>

\* A 'message' event on the page's window.
WindowMessage(msg) ==
    /\ LET e == IF listening
                THEN GalliunClient_handleMessage(Effects(wins), msg)
                ELSE Effects(wins)
       IN Commit(e)
    /\ lastEv' = [kind |-> "message", origin |-> msg.origin, type |-> msg.type,
                  open |-> HoldOpen]
    /\ UNCHANGED <<listening, registry, callbacks, productId, popup, button,
                   pollTimers>>

\* GalliunButton.destroy()
Destroy(f) ==
    /\ Commit(Effects(CloseExisting(wins, popup[f])))
    /\ registry' = unregisterFeature(registry, f)
    /\ lastEv' = [kind |-> "destroy", f |-> f,
                  registered |-> (f \in Range(registry)),
                  wasOpen |-> PopupOpen(wins, popup[f])]
    /\ UNCHANGED <<listening, callbacks, productId, popup, button, pollTimers>>

\* window.removeEventListener('message', this.handleMessage)
removeEventListener_Keep(l) == l

removeEventListener(l) == FALSE

\* GalliunClient.destroy()
ClientDestroy ==
    /\ listening' = removeEventListener(listening)
    /\ Commit(Effects(DestroyAll(wins, registry)))
    /\ registry' = <<>>
    /\ lastEv' = [kind |-> "clientDestroy",
                  open |-> HoldOpen \cap Range(registry)]
    /\ UNCHANGED <<callbacks, productId, popup, button, pollTimers>>

MountOptions == [productId : ProductIds \cup {Undefined}, callbacks : CallbackSets]

\* mount(options = {}): a mount that finds no container returns before it
\* reads its options.
NoOptions == [productId |-> Undefined, callbacks |-> NoCallbacks]

Next ==
    \/ \E f \in Features, opts \in MountOptions : Mount(f, TRUE, opts)
    \/ \E f \in Features : Mount(f, FALSE, NoOptions)
    \/ \E f \in Features, res \in OpenResults : Click(f, res)
    \/ \E t \in pollTimers : PollTick(t)
    \/ \E h \in Windows : UserClose(h)
    \/ \E msg \in Messages : WindowMessage(msg)
    \/ \E f \in Features : Destroy(f)
    \/ ClientDestroy

Spec == Init /\ [][Next]_vars

\* The timers setInterval can have started.
TimerIds == [owner : Features, win : 1..MaxWindows]

\* setInterval(..., 500) runs its callback again and again until
\* clearInterval: a timer that is active keeps ticking. A popup that is open
\* is eventually closed by the user or by the payment page.
FairSpec ==
    /\ Init /\ [][Next]_vars
    /\ \A t \in TimerIds : WF_vars(PollTick(t))
    /\ \A h \in 1..MaxWindows : WF_vars(UserClose(h))

\* ------------------------------------------------------------- claims

\* The invocations of callback name on feature f among the invocations cs.
Invocations(cs, f, name) ==
    {i \in 1..Len(cs) : cs[i].f = f /\ cs[i].cb = name}

\* C1: a message whose origin is not the client's trusted origin invokes no
\* callback of any feature and closes no popup, whatever its type and
\* whatever features are registered.
C1_CrossOriginIsolation ==
    [][(lastEv'.kind = "message" /\ lastEv'.origin # popupOrigin)
          => (fired' = <<>> /\ wins' = wins)]_vars

\* An untrusted GALLIUN_SUCCESS was handled while a registered feature with
\* callbacks held an open popup.
C1_Witness ==
    /\ lastEv.kind = "message"
    /\ lastEv.origin # popupOrigin
    /\ lastEv.type = "GALLIUN_SUCCESS"
    /\ listening
    /\ \E f \in Range(registry) :
          callbacks[f]["onSuccess"] = "ok" /\ PopupOpen(wins, popup[f])

\* The feature holds a popup that its openPopup opened (it was not blocked):
\* the poll timer started for it is still running.
Polled(f) == \E t \in pollTimers : t.owner = f /\ t.win = popup[f]

\* C2: at most one terminal callback (onSuccess or onError) per payment
\* attempt. No openPopup lies between two messages handled one after the
\* other, so a feature whose openPopup opened a popup and that invoked a
\* terminal callback for the first message invokes none for the second.
C2_AtMostOneTerminalPerAttempt ==
    [][\A f \in Features :
          (/\ lastEv.kind = "message"
           /\ lastEv'.kind = "message"
           /\ Polled(f)
           /\ FiredTerminal(fired, f))
          => ~FiredTerminal(fired', f)]_vars

\* C3: once destroy() of a feature with an open popup has returned, no tick
\* of a poll timer invokes the feature's onClose; in particular not the tick
\* that follows the destroy.
C3_NoOnCloseAfterDestroy ==
    [][\A f \in Features :
          (/\ lastEv.kind = "destroy"
           /\ lastEv.f = f
           /\ lastEv.wasOpen
           /\ lastEv'.kind = "tick"
           /\ lastEv'.f = f)
          => Invocations(fired', f, "onClose") = {}]_vars

\* C4: the closure of a popup is reported by onClose once, never twice: when
\* a step has invoked onClose on a feature holding popup h, a poll tick that
\* follows it does not invoke onClose for the same popup h again.
C4_OnCloseOncePerClosure ==
    [][\A f \in Features :
          \A i \in Invocations(fired, f, "onClose") :
             \A j \in Invocations(fired', f, "onClose") :
                ~(/\ lastEv'.kind = "tick"
                  /\ fired[i].popup # Null
                  /\ fired'[j].popup = fired[i].popup)]_vars

\* C5: a trusted-origin message that the client dispatches reaches the
\* handler of every registered feature, also when the handler or a callback
\* of one of them raises an exception.
C5_DeliveryIsolation ==
    (lastEv.kind = "message" /\ lastEv.origin = popupOrigin /\ listening)
       => delivered = Range(registry)

\* The windows that feature f opened and that are still open.
OpenWindowsOf(f) == {h \in Windows : wins[h].owner = f /\ ~wins[h].closed}

\* C6: in every reachable state at most one window opened by a feature is
\* open, and an openPopup made while the feature's popup is open closes
\* that popup.
C6_OnePopupPerFeature ==
    /\ [](\A f \in Features : Cardinality(OpenWindowsOf(f)) <= 1)
    /\ [][\A f \in Features :
             (lastEv'.kind = "click" /\ lastEv'.f = f /\ PopupOpen(wins, popup[f]))
             => wins'[popup[f]].closed]_vars

\* A feature has just opened a second popup while its first one was open.
C6_Witness ==
    /\ lastEv.kind = "click"
    /\ lastEv.wasOpen
    /\ PopupOpen(wins, popup[lastEv.f])
    /\ \E h \in Windows :
          h # popup[lastEv.f] /\ wins[h].owner = lastEv.f /\ wins[h].closed

\* C7: mounting on an existing mount target without a productId, with
\* onError supplied, invokes onError exactly once, with type
\* validation_error and code parameter_missing, opens no popup and installs
\* no click handler.
C7_MountWithoutProductId ==
    [][(lastEv'.kind = "mount" /\ lastEv'.exists)
          => \A opts \in MountOptions :
                (/\ opts.productId = Undefined
                 /\ opts.callbacks["onError"] # "absent"
                 /\ Mount(lastEv'.f, TRUE, opts))
                => (/\ Len(fired') = 1
                    /\ fired'[1].f = lastEv'.f
                    /\ fired'[1].cb = "onError"
                    /\ fired'[1].arg.type = "validation_error"
                    /\ fired'[1].arg.code = "parameter_missing"
                    /\ Len(wins') = Len(wins)
                    /\ popup' = popup
                    /\ pollTimers' = pollTimers
                    /\ button' = button)]_vars

\* A first mount without productId has just reported parameter_missing.
C7_Witness ==
    /\ lastEv.kind = "mount"
    /\ lastEv.exists
    /\ button[lastEv.f] = NoButton
    /\ Len(fired) = 1
    /\ fired[1].cb = "onError"
    /\ fired[1].arg.code = "parameter_missing"

\* C8: an openPopup whose window.open returns null or a handle that is
\* already closed invokes onError (when supplied) with type popup_error and
\* code popup_blocked, and starts no poll timer.
C8_PopupBlocked ==
    [][lastEv'.kind = "click"
          => \A res \in {"null", "closed"} :
                Click(lastEv'.f, res)
                => (/\ pollTimers' = pollTimers
                    /\ callbacks[lastEv'.f]["onError"] # "absent"
                       => (/\ Len(fired') = 1
                           /\ fired'[1].f = lastEv'.f
                           /\ fired'[1].cb = "onError"
                           /\ fired'[1].arg.type = "popup_error"
                           /\ fired'[1].arg.code = "popup_blocked"))]_vars

\* A blocked openPopup has just reported popup_blocked, and no timer polls
\* the handle it got.
C8_Witness ==
    /\ lastEv.kind = "click"
    /\ Len(fired) = 1
    /\ fired[1].cb = "onError"
    /\ fired[1].arg.code = "popup_blocked"
    /\ \A t \in pollTimers : t.owner = lastEv.f => t.win # popup[lastEv.f]

\* C9 as stated: every onSuccess of a mounted feature with a stored
\* productId gets a result whose metadata.productId is that stored productId.
C9_ResultHasStoredProductId ==
    \A i \in 1..Len(fired) :
        (fired[i].cb = "onSuccess" /\ productId[fired[i].f] # Undefined)
        => fired[i].arg.productId = productId[fired[i].f]

\* C9 amended: a GALLIUN_SUCCESS message from the trusted origin invokes
\* onSuccess, once, on every feature whose handler it reaches and that
\* supplied onSuccess, and on no other; each result's metadata.productId is
\* the productId of the message's data.
C9_ResultHasMessageProductId ==
    [][(lastEv'.kind = "message" /\ lastEv'.type = "GALLIUN_SUCCESS" /\ listening)
          => \A msg \in Messages :
                (/\ msg.type = "GALLIUN_SUCCESS"
                 /\ msg.origin = popupOrigin
                 /\ WindowMessage(msg))
                => \A f \in Features :
                      /\ Cardinality(Invocations(fired', f, "onSuccess"))
                            = IF /\ f \in delivered'
                                 /\ callbacks[f]["onSuccess"] # "absent"
                              THEN 1 ELSE 0
                      /\ \A i \in Invocations(fired', f, "onSuccess") :
                            fired'[i].arg.productId = msg.data.productId]_vars

\* A feature mounted for one product has just received the result of a
\* GALLIUN_SUCCESS that names another product.
C9_Witness ==
    /\ lastEv.kind = "message"
    /\ lastEv.type = "GALLIUN_SUCCESS"
    /\ \E i \in 1..Len(fired) :
          /\ fired[i].cb = "onSuccess"
          /\ productId[fired[i].f] # Undefined
          /\ fired[i].arg.productId # productId[fired[i].f]

\* C10: registering a registered feature and unregistering an absent one
\* leave the registry unchanged; after an unregistration the feature is
\* absent, however often it was registered; a dispatch reaches registered
\* features only.
C10_RegistryIdempotent ==
    [][/\ (lastEv'.kind = "mount" /\ lastEv'.exists /\ lastEv'.registered)
             => registry' = registry
       /\ (lastEv'.kind = "mount" /\ lastEv'.exists)
             => lastEv'.f \in Range(registry')
       /\ lastEv'.kind = "destroy"
             => /\ lastEv'.f \notin Range(registry')
                /\ ~lastEv'.registered => registry' = registry
       /\ delivered' \subseteq Range(registry')]_vars

\* A registered feature has just been mounted, so registered, again, and
\* the registry holds it once, beside another feature.
C10_Witness ==
    /\ lastEv.kind = "mount"
    /\ lastEv.exists
    /\ lastEv.registered
    /\ Cardinality({i \in 1..Len(registry) : registry[i] = lastEv.f}) = 1
    /\ Len(registry) = 2

\* C11: once GalliunClient.destroy() has run, the client stays off the
\* page's message channel: a message that arrives afterwards, also from the
\* trusted origin, reaches no feature handler, invokes no callback and
\* closes no popup.
C11_NoDispatchAfterClientDestroy ==
    [][/\ lastEv'.kind = "clientDestroy" => ~listening'
       /\ ~listening => ~listening'
       /\ (lastEv'.kind = "message" /\ ~listening)
             => (delivered' = {} /\ fired' = <<>> /\ wins' = wins)]_vars

\* After the client was destroyed, a button was mounted again (it is in the
\* registry, with callbacks) and a trusted GALLIUN_SUCCESS has just arrived.
C11_Witness ==
    /\ ~listening
    /\ lastEv.kind = "message"
    /\ lastEv.origin = popupOrigin
    /\ lastEv.type = "GALLIUN_SUCCESS"
    /\ \E f \in Range(registry) : callbacks[f]["onSuccess"] = "ok"

\* The poll timers of feature f that are active.
TimersOf(f) == {t \in pollTimers : t.owner = f}

\* C12: right after a feature is destroyed, and right after it has handled a
\* terminal message (GALLIUN_SUCCESS, GALLIUN_ERROR, GALLIUN_CLOSE), it has
\* no active poll timer.
C12_PollCancelled ==
    /\ lastEv.kind = "destroy" => TimersOf(lastEv.f) = {}
    /\ lastEv.kind = "clientDestroy" => \A f \in lastEv.open : TimersOf(f) = {}
    /\ (/\ lastEv.kind = "message"
        /\ lastEv.type \in {"GALLIUN_SUCCESS", "GALLIUN_ERROR", "GALLIUN_CLOSE"})
          => \A f \in delivered : TimersOf(f) = {}

\* C13: destroy() of a feature invokes no callback and leaves the feature
\* out of the registry with no open popup; on a feature that was never
\* mounted and holds no popup it changes nothing, and a second destroy()
\* right after a first changes nothing.
C13_DestroyIdempotent ==
    [][\A f \in Features :
          (lastEv'.kind = "destroy" /\ lastEv'.f = f)
          => /\ fired' = <<>>
             /\ f \notin Range(registry')
             /\ ~PopupOpen(wins', popup'[f])
             /\ UNCHANGED <<listening, callbacks, productId, popup, button,
                            pollTimers>>
             /\ (f \notin Range(registry) /\ popup[f] = Null)
                   => UNCHANGED <<registry, wins>>
             /\ (lastEv.kind = "destroy" /\ lastEv.f = f)
                   => UNCHANGED <<registry, wins>>]_vars

\* destroy() has just run on a feature that was never mounted: it has no
\* button, no callbacks, no popup, and was not registered.
C13_Witness ==
    /\ lastEv.kind = "destroy"
    /\ ~lastEv.registered
    /\ button[lastEv.f] = NoButton
    /\ callbacks[lastEv.f] = NoCallbacks
    /\ popup[lastEv.f] = Null
    /\ registry # <<>>

\* C14: GalliunClient.destroy() destroys every feature that was registered
\* when it was called, although each removes itself from the registry during
\* the iteration: afterwards the registry is empty and the popup of every
\* such feature is closed.
C14_ClientDestroyReachesAll ==
    [][lastEv'.kind = "clientDestroy"
          => /\ registry' = <<>>
             /\ fired' = <<>>
             /\ \A f \in Range(registry) : ~PopupOpen(wins', popup'[f])]_vars

\* The client was just destroyed while both features were registered and
\* both held an open popup; both popups are closed now.
C14_Witness ==
    /\ lastEv.kind = "clientDestroy"
    /\ lastEv.open = Features
    /\ registry = <<>>
    /\ \A f \in Features : popup[f] # Null /\ wins[popup[f]].closed

\* C15: after a registered feature that holds an open popup has handled
\* GALLIUN_SUCCESS or GALLIUN_ERROR from the trusted origin, its popup is
\* closed, whether or not it supplied onSuccess / onError; a callback that
\* was invoked saw the popup still open (fired records the windows only
\* after the handler, so the order shows in the handler's effects).
C15_TerminalMessageClosesPopup ==
    (/\ lastEv.kind = "message"
     /\ lastEv.origin = popupOrigin
     /\ lastEv.type \in {"GALLIUN_SUCCESS", "GALLIUN_ERROR"})
       => \A f \in delivered \cap lastEv.open : ~PopupOpen(wins, popup[f])

\* C16: a trusted message reaches every registered feature; with two
\* registered features that both hold an open popup, one GALLIUN_SUCCESS
\* invokes onSuccess (where supplied) on both and closes both popups.
C16_FanOut ==
    (/\ lastEv.kind = "message"
     /\ lastEv.origin = popupOrigin
     /\ lastEv.type = "GALLIUN_SUCCESS"
     /\ listening
     /\ Range(registry) = Features
     /\ lastEv.open = Features)
       => \A f \in Features :
             /\ f \in delivered
             /\ callbacks[f]["onSuccess"] # "absent"
                  => Cardinality(Invocations(fired, f, "onSuccess")) = 1
             /\ ~PopupOpen(wins, popup[f])

C18_NonTerminalChangesNothing ==
    [][(/\ lastEv'.kind = "message"
        /\ lastEv'.origin = popupOrigin
        /\ lastEv'.type \in {"GALLIUN_LOADED", "OTHER"})
          => /\ UNCHANGED <<listening, registry, callbacks, productId, popup,
                            button, wins, pollTimers>>
             /\ \A i \in 1..Len(fired') : fired'[i].cb = "onLoaded"
             /\ lastEv'.type = "OTHER" => fired' = <<>>]_vars

\* A trusted GALLIUN_LOADED has just reached a registered feature that holds
\* an open, polled popup and has onLoaded: onLoaded was invoked and the
\* popup is still open.
C18_Witness ==
    /\ lastEv.kind = "message"
    /\ lastEv.origin = popupOrigin
    /\ lastEv.type = "GALLIUN_LOADED"
    /\ \E f \in delivered \cap lastEv.open :
          /\ PopupOpen(wins, popup[f])
          /\ Polled(f)
          /\ Invocations(fired, f, "onLoaded") # {}

\* C19: a mount whose container does not exist changes nothing: the feature
\* is not added to the registry, its callbacks and productId stay as they
\* were, no callback is invoked, no popup is opened, and the other features
\* and the client are as before.
C19_MountWithoutContainer ==
    [][(lastEv'.kind = "mount" /\ ~lastEv'.exists)
          => /\ UNCHANGED <<listening, registry, callbacks, productId, popup,
                            button, wins, pollTimers>>
             /\ fired' = <<>>]_vars

\* A feature that is not registered was just mounted on a missing container
\* while another feature is registered: it is still not registered and has
\* no button.
C19_Witness ==
    /\ lastEv.kind = "mount"
    /\ ~lastEv.exists
    /\ lastEv.f \notin Range(registry)
    /\ button[lastEv.f] = NoButton
    /\ registry # <<>>

\* C20: onClose is never invoked while the feature's current popup is open:
\* in every state reached by a step that invoked a feature's onClose (a
\* poll tick or a GALLIUN_CLOSE message), the handle the feature holds is
\* null or refers to a closed window.
C20_OnCloseOnlyWhenClosed ==
    \A i \in 1..Len(fired) :
        fired[i].cb = "onClose" => ~PopupOpen(wins, popup[fired[i].f])

\* A trusted GALLIUN_CLOSE has just reached a feature that held an open
\* popup: its onClose was invoked and the popup is closed.
C20_Witness ==
    /\ lastEv.kind = "message"
    /\ lastEv.type = "GALLIUN_CLOSE"
    /\ \E f \in lastEv.open :
          /\ Invocations(fired, f, "onClose") # {}
          /\ popup[f] # Null
          /\ wins[popup[f]].closed

====
